---- MODULE Spec2Model ----
(***************************************************************************)
(* Model of the two-stage pipeline of problem3: the Document Processor     *)
(* (processor/process.py) and the Corpus Analyzer (analyzer/analyze.py),   *)
(* which run as independent processes and synchronise only through marker  *)
(* files on a shared file system.                                          *)
(*                                                                         *)
(* File names are sequences of name tokens (<<"a", ".html">> is "a.html"). *)
(* The tokens are prefix-free and every token that holds a dot starts with *)
(* it, so the substring ".html" occurs in a name exactly where the token   *)
(* ".html" occurs, and the order of the names as strings is the            *)
(* lexicographic order of the token sequences.                             *)
(*                                                                         *)
(* Document texts are sequences of lexemes: words, sentence terminators,   *)
(* white space, tags and attribute-like strings.  In the documents of the  *)
(* model two word lexemes are never adjacent, so that every word lexeme is *)
(* one maximal run of the pattern [0-9A-Za-z]+.                            *)
(* Time stamps are not modelled.                                           *)
(***************************************************************************)
EXTENDS Integers, Sequences, FiniteSets, TLC

\* the most documents the raw area holds in one run
MaxRawDocs == 2
\* the most raw documents that cannot be opened
MaxUnreadable == 1
\* the most files the processed area holds before the Processor starts
MaxStale == 1

KEEP_ALIVE_MAX_SEC == 600

(***************************************************************************)
(* Evaluation helpers                                                      *)
(***************************************************************************)
\* F(e) with e evaluated once, whatever the number of uses F makes of it
Let(e, F(_)) == CHOOSE y \in { F(v) : v \in {e} } : TRUE

\* the elements of the finite set P0 in the strict total order Before
Ordered(P0, Before(_, _)) ==
    Let(P0, LAMBDA P :
    Let([p \in P |-> Cardinality({ q \in P : Before(q, p) })], LAMBDA rank :
        [k \in 1..Cardinality(P) |-> CHOOSE p \in P : rank[p] = k - 1]))

Range(s) == { s[i] : i \in 1..Len(s) }

\* list.extend() over a list of lists: the concatenation of the elements of ss0
Flatten(ss0) ==
    Let(ss0, LAMBDA ss :
    Let(Ordered(UNION { { <<i, j>> : j \in 1..Len(ss[i]) } : i \in 1..Len(ss) },
                LAMBDA p, q : p[1] < q[1] \/ (p[1] = q[1] /\ p[2] < q[2])),
        LAMBDA pos : [k \in 1..Len(pos) |-> ss[pos[k][1]][pos[k][2]]]))

\* sum() of a list of naturals
SumSeq(s0) ==
    Let(s0, LAMBDA s :
        Cardinality(UNION { { <<i, u>> : u \in 1..s[i] } : i \in 1..Len(s) }))

(***************************************************************************)
(* File names                                                              *)
(***************************************************************************)
NameTokens == <<".html", ".json", ".txt", "a", "b", "x">>

\* rank of a token in the order of the strings
TokRank(t) == CHOOSE i \in 1..Len(NameTokens) : NameTokens[i] = t

\* n1 < n2 as strings: n1 is a proper prefix of n2, or the first token they
\* differ in is smaller in n1
NameLess(n1, n2) ==
    \E i \in 1..(Len(n1) + 1) :
        /\ i - 1 <= Len(n2)
        /\ \A j \in 1..(i - 1) : n1[j] = n2[j]
        /\ IF i > Len(n1) THEN Len(n2) >= i
           ELSE i <= Len(n2) /\ TokRank(n1[i]) < TokRank(n2[i])

\* sorted(os.listdir(d)) for a directory holding the names S
Sorted(S) == Ordered(S, NameLess)

\* fname.endswith(ext)
EndsWith(fname, ext) == Len(fname) > 0 /\ fname[Len(fname)] = ext

\* fname.replace(old, new): every occurrence is replaced
Replace(fname, old, new) ==
    [i \in 1..Len(fname) |-> IF fname[i] = old THEN new ELSE fname[i]]

\* the name with its last extension replaced
ReplaceExt(fname, new) ==
    [i \in 1..Len(fname) |-> IF i = Len(fname) THEN new ELSE fname[i]]

(***************************************************************************)
(* Lexemes and the text functions                                          *)
(***************************************************************************)
Terminators == {".", "!", "?"}
WhiteSpace  == {" ", "\n"}
ScriptOpen  == {"<script>", "<SCRIPT>"}
ScriptClose == {"</script>", "</SCRIPT>"}
StyleOpen   == {"<style>"}
StyleClose  == {"</style>"}
\* "</script >" is an end tag of HTML that the pattern </script> does not match
Tags == ScriptOpen \cup ScriptClose \cup StyleOpen \cup StyleClose \cup
        {"<p>", "</p>", "<a href='u1'>", "</a>", "<img src='i1'>", "</script >"}

\* the matches of href=['"]?([^'" >]+) inside one lexeme
HrefsOf(lex) ==
    CASE lex = "<a href='u1'>" -> <<"u1">>
      [] lex = "href='u2'"     -> <<"u2">>
      [] OTHER                 -> <<>>

\* the matches of src=['"]?([^'" >]+) inside one lexeme
SrcsOf(lex) ==
    CASE lex = "<img src='i1'>" -> <<"i1">>
      [] lex = "src='i2'"       -> <<"i2">>
      [] OTHER                  -> <<>>

\* the matches of [0-9A-Za-z]+ inside one lexeme of a tag-free text
WordsOf(lex) ==
    CASE lex \in Terminators \cup WhiteSpace \cup {",", "--"} -> <<>>
      [] lex = "href='u2'" -> <<"href", "u2">>
      [] lex = "src='i2'"  -> <<"src", "i2">>
      [] OTHER             -> <<lex>>

\* str.lower() of one word
Lower(w) ==
    CASE w = "Cats" -> "cats"
      [] w = "Dogs" -> "dogs"
      [] OTHER      -> w

\* the numerals of two and of three digits that serve as words
TwoDigits == { ToString(i) : i \in 10..99 }
ThreeDigits == { ToString(i) : i \in 100..199 }

\* len(w)
WordLen(w) ==
    CASE w \in {"i2", "u2"} \cup TwoDigits -> 2
      [] w \in ThreeDigits -> 3
      [] w \in {"and", "run", "fly", "src"} -> 3
      [] w \in {"Cats", "cats", "Dogs", "dogs", "fast", "href"} -> 4
      [] w \in {"birds"} -> 5
      [] OTHER -> 1

\* re.findall(r"[0-9A-Za-z]+", text)
Tokenize(text0) ==
    Let(text0, LAMBDA text : Flatten([i \in 1..Len(text) |-> WordsOf(text[i])]))

\* variant of TokenizeLower: the words are kept in their case
TokenizeCased(text) == Tokenize(text)

\* re.findall(r"[0-9A-Za-z]+", text.lower())
TokenizeLower(text) ==
    Let(Tokenize(text), LAMBDA ws : [i \in 1..Len(ws) |-> Lower(ws[i])])

\* re.sub(open[^>]*>.*?close, '', html): a block runs from an opening tag to
\* the first closing tag after it; an opening tag that is never closed stays.
\* A lexeme is inside a block exactly when an opening tag at or before it has
\* no closing tag in between and a closing tag at or after the lexeme
RemoveBlocks(html0, open, close) ==
    Let(html0, LAMBDA html :
    Let(Ordered({ p \in 1..Len(html) :
                    ~\E s \in 1..p :
                        /\ html[s] \in open
                        /\ \A m \in (s + 1)..(p - 1) : html[m] \notin close
                        /\ \E e \in p..Len(html) : e > s /\ html[e] \in close },
                LAMBDA i, j : i < j),
        LAMBDA pos : [k \in 1..Len(pos) |-> html[pos[k]]]))

\* re.sub(r'\s+', ' ', text): every run of white space becomes one space
CollapseSpace(text0) ==
    Let(text0, LAMBDA text :
    Let(Ordered({ i \in 1..Len(text) :
                    ~(text[i] \in WhiteSpace /\ i > 1 /\ text[i - 1] \in WhiteSpace) },
                LAMBDA i, j : i < j),
        LAMBDA pos : [k \in 1..Len(pos) |->
                        IF text[pos[k]] \in WhiteSpace THEN " " ELSE text[pos[k]]]))

\* text.strip() of a text whose white space is collapsed
Strip(text0) ==
    Let(text0, LAMBDA text :
        LET a == IF text # <<>> /\ text[1] \in WhiteSpace THEN 2 ELSE 1
            b == IF text # <<>> /\ text[Len(text)] \in WhiteSpace
                 THEN Len(text) - 1 ELSE Len(text)
        IN  SubSeq(text, a, b))

strip_html(html_content) ==
    Let(RemoveBlocks(RemoveBlocks(html_content, ScriptOpen, ScriptClose),
                     StyleOpen, StyleClose),
        LAMBDA html :
           [text   |-> Strip(CollapseSpace(
                          [i \in 1..Len(html) |->
                              IF html[i] \in Tags THEN " " ELSE html[i]])),
            links  |-> Flatten([i \in 1..Len(html) |-> HrefsOf(html[i])]),
            images |-> Flatten([i \in 1..Len(html) |-> SrcsOf(html[i])])])

\* re.split(seps, text): the pieces between the separators, one more than
\* there are separators
SplitOn(text0, seps) ==
    Let(text0, LAMBDA text :
    Let(Ordered({0, Len(text) + 1} \cup { i \in 1..Len(text) : text[i] \in seps },
                LAMBDA i, j : i < j),
        LAMBDA cut : [k \in 1..(Len(cut) - 1) |->
                         SubSeq(text, cut[k] + 1, cut[k + 1] - 1)]))

\* s.strip() is not empty
NonBlank(s) == \E i \in 1..Len(s) : s[i] \notin WhiteSpace

\* [s for s in re.split(r"[.!?]", text) if s.strip()]
Sentences(text) == SelectSeq(SplitOn(text, Terminators), NonBlank)

\* [p for p in re.split(r"\n+", text) if p.strip()]; the empty pieces between
\* the newlines of one run are not kept
Paragraphs(text) == SelectSeq(SplitOn(text, {"\n"}), NonBlank)

\* a float, kept as numerator and denominator
Frac(n, d) == <<n, d>>
Zero == Frac(0, 1)
IsZero(q) == q[1] = 0 /\ q[2] # 0

(***************************************************************************)
(* The documents and files of the model                                    *)
(***************************************************************************)
\* the documents the raw area can hold
RawNames == { <<"a", ".html">>, <<"b", ".html">>, <<"a", ".html", ".html">>,
              <<"a", ".json", ".html">>, <<"a", ".txt">> }

\* the content of a raw document
Html(fname) ==
    CASE fname = <<"a", ".html">> ->
           <<"<p>", "Cats", " ", "and", " ", "dogs", ".", " ",
             "Dogs", " ", "run", " ", "fast", "!", "</p>">>
      [] fname = <<"b", ".html">> ->
           <<"Dogs", " ", "and", " ", "birds", " ", "fly", ".">>
      [] fname = <<"a", ".html", ".html">> ->
           <<"<script>", "href='u2'", "</script>", "<a href='u1'>", "fly", "</a>">>
      [] fname = <<"a", ".json", ".html">> -> <<"--", ".">>
      [] OTHER -> <<"fast">>

\* a file that was opened for writing and not completed, or any other file
\* json.load() cannot decode
InvalidJson ==
    [valid |-> FALSE, source_file |-> <<>>, text |-> <<>>,
     statistics |-> [word_count |-> 0, sentence_count |-> 0,
                     paragraph_count |-> 0, avg_word_length |-> Zero],
     links |-> <<>>, images |-> <<>>]

\* variant of ProcessedRecord: avg_word_length is divided without its guard
RecordUnguarded(fname, html) ==
    Let(strip_html(html), LAMBDA ex :
    Let(Tokenize(ex.text), LAMBDA words :
        [valid |-> TRUE, source_file |-> fname, text |-> ex.text,
         statistics |->
           [word_count |-> Len(words),
            sentence_count |-> Len(Sentences(ex.text)),
            paragraph_count |-> Len(Paragraphs(ex.text)),
            avg_word_length |->
               Frac(SumSeq([i \in 1..Len(words) |-> WordLen(words[i])]), Len(words))],
         links |-> ex.links, images |-> ex.images]))

\* the record the Processor builds for one document
ProcessedRecord(fname, html) ==
    Let(strip_html(html), LAMBDA ex :
    Let(Tokenize(ex.text), LAMBDA words :
        [valid |-> TRUE, source_file |-> fname, text |-> ex.text,
         statistics |->
           [word_count |-> Len(words),
            sentence_count |-> Len(Sentences(ex.text)),
            paragraph_count |-> Len(Paragraphs(ex.text)),
            avg_word_length |->
               IF words # <<>>
               THEN Frac(SumSeq([i \in 1..Len(words) |-> WordLen(words[i])]), Len(words))
               ELSE Zero],
         links |-> ex.links, images |-> ex.images]))

\* the files the processed area can hold before the run
StaleFiles ==
    { [name |-> <<"x", ".json">>, content |-> InvalidJson],
      [name |-> <<"b", ".json">>,
       content |-> ProcessedRecord(<<"b", ".html">>, <<"birds", " ", "fly", ".">>)],
      [name |-> <<"x", ".txt">>, content |-> InvalidJson] }

\* the name of the record file of one input
OutPath(fname) == Replace(fname, ".html", ".json")

\* the sets of at most n elements of S
SubsetsUpTo(S, n) == { T \in SUBSET S : Cardinality(T) <= n }

(***************************************************************************)
(* State                                                                   *)
(***************************************************************************)
VARIABLES
    raw,              \* /shared/raw: the names of the raw documents
    unreadable,       \* the raw documents open() fails on
    fetch_complete,   \* /shared/status/fetch_complete.json
    processed,        \* /shared/processed: file name -> content
    process_complete, \* /shared/status/process_complete.json
    final_report,     \* /shared/analysis/final_report.json
    analyzer_marker,  \* the completion marker of the Analyzer exists
    ppc,              \* Processor: position in main()
    pfault,           \* Processor: the step a structural fault ended it at
    todo,             \* Processor: the rest of sorted(os.listdir(raw_dir))
    cur,              \* Processor: fname of the record being written
    processed_count,  \* Processor: processed_count
    wrote,            \* Processor: the inputs whose record it has written
    apc,              \* Analyzer: position in main()
    afault,           \* Analyzer: what ended it
    atodo,            \* Analyzer: the rest of sorted(os.listdir(processed_dir))
    docs,             \* Analyzer: docs
    doc_tokens,       \* Analyzer: doc_tokens
    all_words,        \* Analyzer: all_words
    sentence_lengths, \* Analyzer: sentence_lengths
    word_lengths,     \* Analyzer: word_lengths
    waited,           \* Analyzer: waited
    page,             \* the document strip_html() is applied to on its own
    extracted,        \* what strip_html() returned for it
    fpc,              \* arxiv_processor: position in process() and fetch_arxiv()
    caller,           \* arxiv_processor: who called fetch_arxiv()
    retries,          \* fetch_arxiv: retries
    attempt,          \* fetch_arxiv: attempt
    responses,        \* fetch_arxiv: the outcomes of the HTTP attempts made
    xml_bytes,        \* what fetch_arxiv() returned
    outputs,          \* process: the result files written
    exit_code         \* process: the value returned

fsVars == <<raw, unreadable, fetch_complete, processed, process_complete,
            final_report, analyzer_marker>>
pVars  == <<ppc, pfault, todo, cur, processed_count, wrote>>
aVars  == <<apc, afault, atodo, docs, doc_tokens, all_words,
            sentence_lengths, word_lengths, waited>>
fVars  == <<fpc, caller, retries, attempt, responses, xml_bytes, outputs, exit_code>>
xVars  == <<page, extracted, fVars>>
vars   == <<fsVars, pVars, aVars, xVars>>

\* os.path.exists() of a marker or report file
Exists(file) == file.state # "absent"

NoMarker == [state |-> "absent", files_processed |-> 0]

\* strip_html() has not been applied on its own
NotExtracted == [state |-> "none"]

\* retries: int = 3
RetriesDefault == 3

\* arxiv_processor is not run
FetchIdle ==
    /\ fpc = "idle" /\ caller = "none"
    /\ retries = RetriesDefault /\ attempt = 0 /\ responses = <<>>
    /\ xml_bytes = "unset" /\ outputs = {} /\ exit_code = "none"

Init ==
    /\ raw \in SubsetsUpTo(RawNames, MaxRawDocs)
    /\ unreadable \in SubsetsUpTo(raw, MaxUnreadable)
    /\ fetch_complete = "absent"
    /\ \E st \in SubsetsUpTo(StaleFiles, MaxStale) :
          processed = [n \in {f.name : f \in st} |->
                          (CHOOSE f \in st : f.name = n).content]
    /\ process_complete = NoMarker
    /\ final_report = [state |-> "absent"]
    /\ analyzer_marker = FALSE
    /\ ppc = "poll" /\ pfault = "none" /\ todo = <<>> /\ cur = <<>>
    /\ processed_count = 0 /\ wrote = <<>>
    /\ apc = "poll" /\ afault = "none" /\ atodo = <<>> /\ docs = <<>>
    /\ doc_tokens = <<>> /\ all_words = <<>>
    /\ sentence_lengths = <<>> /\ word_lengths = <<>> /\ waited = 0
    /\ page = <<>> /\ extracted = NotExtracted
    /\ FetchIdle

(***************************************************************************)
(* The upstream fetch stage: it writes its marker at some time, with any   *)
(* content                                                                 *)
(***************************************************************************)
FetchCompletes ==
    /\ fetch_complete = "absent"
    /\ fetch_complete' \in {"empty", "invalid", "valid"}
    /\ UNCHANGED <<raw, unreadable, processed, process_complete, final_report,
                   analyzer_marker, pVars, aVars, xVars>>

(***************************************************************************)
(* Processor: process.py main()                                            *)
(***************************************************************************)
\* an exception that main() does not catch ends the process
PAbort ==
    /\ pfault' = ppc
    /\ ppc' = "aborted"

\* variant of PPoll: the marker is also parsed, and only a JSON marker counts
PPollParses ==
    /\ ppc = "poll"
    /\ ppc' = IF fetch_complete = "valid" THEN "mkdirs" ELSE "sleep"
    /\ UNCHANGED <<fsVars, pfault, todo, cur, processed_count, wrote, aVars, xVars>>

\* while not os.path.exists(status_file)
PPoll ==
    /\ ppc = "poll"
    /\ ppc' = IF fetch_complete # "absent" THEN "mkdirs" ELSE "sleep"
    /\ UNCHANGED <<fsVars, pfault, todo, cur, processed_count, wrote, aVars, xVars>>

\* time.sleep(2)
PSleep ==
    /\ ppc = "sleep"
    /\ ppc' = "poll"
    /\ UNCHANGED <<fsVars, pfault, todo, cur, processed_count, wrote, aVars, xVars>>

\* os.makedirs("/shared/processed"), os.makedirs("/shared/status")
PMkdirs ==
    /\ ppc = "mkdirs"
    /\ \/ ppc' = "listdir" /\ pfault' = pfault
       \/ PAbort
    /\ UNCHANGED <<fsVars, todo, cur, processed_count, wrote, aVars, xVars>>

\* processed_count = 0; sorted(os.listdir(raw_dir))
PListdir ==
    /\ ppc = "listdir"
    /\ \/ /\ ppc' = "loop" /\ pfault' = pfault
          /\ todo' = Sorted(raw)
          /\ processed_count' = 0
       \/ PAbort /\ UNCHANGED <<todo, processed_count>>
    /\ UNCHANGED <<fsVars, cur, wrote, aVars, xVars>>

\* variant of PLoop: a document that cannot be read ends the loop
PLoopBreak ==
    /\ ppc = "loop"
    /\ IF todo = <<>>
       THEN ppc' = "marker_open" /\ UNCHANGED <<todo, cur>>
       ELSE LET fname == Head(todo) IN
            /\ todo' = IF fname \in unreadable THEN <<>> ELSE Tail(todo)
            /\ IF ~EndsWith(fname, ".html") \/ fname \in unreadable
               THEN ppc' = "loop" /\ cur' = cur
               ELSE ppc' = "rec_open" /\ cur' = fname
    /\ UNCHANGED <<fsVars, pfault, processed_count, wrote, aVars, xVars>>

\* one turn of the for loop up to the record write: the extension filter and
\* the read of the document; the loop's end leads to the marker
PLoop ==
    /\ ppc = "loop"
    /\ IF todo = <<>>
       THEN ppc' = "marker_open" /\ UNCHANGED <<todo, cur>>
       ELSE LET fname == Head(todo) IN
            /\ todo' = Tail(todo)
            /\ IF ~EndsWith(fname, ".html") \/ fname \in unreadable
               THEN ppc' = "loop" /\ cur' = cur
               ELSE ppc' = "rec_open" /\ cur' = fname
    /\ UNCHANGED <<fsVars, pfault, processed_count, wrote, aVars, xVars>>

\* open(outpath, "w"): the file exists and is empty
PRecOpen ==
    /\ ppc = "rec_open"
    /\ \/ /\ ppc' = "rec_dump" /\ pfault' = pfault
          /\ processed' = (OutPath(cur) :> InvalidJson) @@ processed
       \/ PAbort /\ processed' = processed
    /\ UNCHANGED <<raw, unreadable, fetch_complete, process_complete,
                   final_report, analyzer_marker,
                   todo, cur, processed_count, wrote, aVars, xVars>>

\* variant of PRecDump: the marker is rewritten after every record
PRecDumpMarks ==
    /\ ppc = "rec_dump"
    /\ \/ /\ ppc' = "loop" /\ pfault' = pfault
          /\ processed' = (OutPath(cur) :> ProcessedRecord(cur, Html(cur))) @@ processed
          /\ processed_count' = processed_count + 1
          /\ wrote' = Append(wrote, cur)
          /\ cur' = <<>>
          /\ process_complete' = [state |-> "written",
                                  files_processed |-> processed_count + 1]
       \/ PAbort /\ UNCHANGED <<processed, processed_count, wrote, cur,
                                process_complete>>
    /\ UNCHANGED <<raw, unreadable, fetch_complete,
                   final_report, analyzer_marker, todo, aVars, xVars>>

\* variant of PRecDump: the marker is written on the way out of a failed write
PRecDumpFinally ==
    /\ ppc = "rec_dump"
    /\ \/ /\ ppc' = "loop" /\ pfault' = pfault
          /\ processed' = (OutPath(cur) :> ProcessedRecord(cur, Html(cur))) @@ processed
          /\ processed_count' = processed_count + 1
          /\ wrote' = Append(wrote, cur)
          /\ cur' = <<>>
          /\ process_complete' = process_complete
       \/ /\ PAbort /\ UNCHANGED <<processed, processed_count, wrote, cur>>
          /\ process_complete' = [state |-> "written",
                                  files_processed |-> processed_count]
    /\ UNCHANGED <<raw, unreadable, fetch_complete,
                   final_report, analyzer_marker, todo, aVars, xVars>>

\* json.dump(output, f) and the close of the file; processed_count += 1
PRecDump ==
    /\ ppc = "rec_dump"
    /\ \/ /\ ppc' = "loop" /\ pfault' = pfault
          /\ processed' = (OutPath(cur) :> ProcessedRecord(cur, Html(cur))) @@ processed
          /\ processed_count' = processed_count + 1
          /\ wrote' = Append(wrote, cur)
          /\ cur' = <<>>
       \/ PAbort /\ UNCHANGED <<processed, processed_count, wrote, cur>>
    /\ UNCHANGED <<raw, unreadable, fetch_complete, process_complete,
                   final_report, analyzer_marker, todo, aVars, xVars>>

\* open("/shared/status/process_complete.json", "w")
PMarkerOpen ==
    /\ ppc = "marker_open"
    /\ \/ /\ ppc' = "marker_dump" /\ pfault' = pfault
          /\ process_complete' = [state |-> "partial", files_processed |-> 0]
       \/ PAbort /\ process_complete' = process_complete
    /\ UNCHANGED <<raw, unreadable, fetch_complete, processed, final_report,
                   analyzer_marker, todo, cur, processed_count, wrote, aVars, xVars>>

\* variant of PMarkerDump: the Processor goes back to waiting after the marker
PMarkerDumpRetry ==
    /\ ppc = "marker_dump"
    /\ \/ /\ ppc' = "poll" /\ pfault' = pfault
          /\ process_complete' = [state |-> "written",
                                  files_processed |-> processed_count]
       \/ PAbort /\ process_complete' = process_complete
    /\ UNCHANGED <<raw, unreadable, fetch_complete, processed, final_report,
                   analyzer_marker, todo, cur, processed_count, wrote, aVars, xVars>>

\* json.dump(status, f) and the close of the marker; main() returns
PMarkerDump ==
    /\ ppc = "marker_dump"
    /\ \/ /\ ppc' = "done" /\ pfault' = pfault
          /\ process_complete' = [state |-> "written",
                                  files_processed |-> processed_count]
       \/ PAbort /\ process_complete' = process_complete
    /\ UNCHANGED <<raw, unreadable, fetch_complete, processed, final_report,
                   analyzer_marker, todo, cur, processed_count, wrote, aVars, xVars>>

Processor ==
    \/ PPoll \/ PSleep \/ PMkdirs \/ PListdir \/ PLoop
    \/ PRecOpen \/ PRecDump \/ PMarkerOpen \/ PMarkerDump

(***************************************************************************)
(* Analyzer: the aggregation functions of analyze.py                       *)
(***************************************************************************)
\* the number of occurrences of x in s
Count(s, x) == Cardinality({ i \in 1..Len(s) : s[i] = x })

\* the distinct elements of s0 in the order of their first occurrence: the
\* order of the keys of Counter(s0)
Keys(s0) ==
    Let(s0, LAMBDA s :
    Let(Ordered({ i \in 1..Len(s) : \A j \in 1..(i - 1) : s[j] # s[i] },
                LAMBDA i, j : i < j),
        LAMBDA pos : [k \in 1..Len(pos) |-> s[pos[k]]]))

\* variant of most_common: the k first keys, in the order of the keys
first_counted(s0, k) ==
    Let(s0, LAMBDA s :
    Let(Keys(s), LAMBDA keys :
        [i \in 1..(IF Len(keys) < k THEN Len(keys) ELSE k) |->
            <<keys[i], Count(s, keys[i])>>]))

\* Counter(s0).most_common(k): the k first (key, count) by count, largest
\* first, equal counts in the order of the keys
most_common(s0, k) ==
    Let(s0, LAMBDA s :
    Let(Keys(s), LAMBDA keys :
    Let([p \in 1..Len(keys) |-> Count(s, keys[p])], LAMBDA cnt :
    Let(Ordered(1..Len(keys),
                LAMBDA p, q : cnt[p] > cnt[q] \/ (cnt[p] = cnt[q] /\ p < q)),
        LAMBDA ord :
           [i \in 1..(IF Len(ord) < k THEN Len(ord) ELSE k) |->
               <<keys[ord[i]], cnt[ord[i]]>>]))))

\* variant of jaccard_similarity: the share of the first document's tokens
\* that the second document has
jaccard_of_first(doc1_words, doc2_words) ==
    Let(Range(doc1_words), LAMBDA set1 :
    Let(Range(doc2_words), LAMBDA set2 :
        IF set1 # {} THEN Frac(Cardinality(set1 \cap set2), Cardinality(set1))
        ELSE Zero))

\* variant of jaccard_similarity: the union counts one more than it holds
jaccard_smoothed(doc1_words, doc2_words) ==
    Let(Range(doc1_words), LAMBDA set1 :
    Let(Range(doc2_words), LAMBDA set2 :
        Frac(Cardinality(set1 \cap set2), Cardinality(set1 \cup set2) + 1)))

\* variant of jaccard_similarity: the union is sized on the token lists, a
\* repeated token counting every time
jaccard_of_lists(doc1_words, doc2_words) ==
    Let(Range(doc1_words) \cap Range(doc2_words), LAMBDA intersection :
        IF Len(doc1_words) + Len(doc2_words) # 0
        THEN Frac(Cardinality(intersection),
                  Len(doc1_words) + Len(doc2_words) - Cardinality(intersection))
        ELSE Zero)

jaccard_similarity(doc1_words, doc2_words) ==
    Let(Range(doc1_words), LAMBDA set1 :
    Let(Range(doc2_words), LAMBDA set2 :
        LET intersection == set1 \cap set2
            union == set1 \cup set2
        IN  IF union # {} THEN Frac(Cardinality(intersection), Cardinality(union))
            ELSE Zero))

\* an n-gram is kept as the tuple of its words, " ".join() of them as a key
get_ngrams(words0, n) ==
    Let(words0, LAMBDA words :
        [i \in 1..(Len(words) - n + 1) |-> SubSeq(words, i, i + n - 1)])

\* the pairs (i, j), i < j <= n, in the order of the two nested loops
Pairs(n) ==
    Ordered({ p \in (1..n) \X (1..n) : p[1] < p[2] },
            LAMBDA p, q : p[1] < q[1] \/ (p[1] = q[1] /\ p[2] < q[2]))

\* the similarities list
Similarities(ds, toks) ==
    Let(Pairs(Len(ds)), LAMBDA ps :
        [k \in 1..Len(ps) |->
           [doc1 |-> ds[ps[k][1]], doc2 |-> ds[ps[k][2]],
            similarity |-> jaccard_similarity(toks[ds[ps[k][1]]], toks[ds[ps[k][2]]])]])

\* variant of NGramsOfAll: the n-grams of the words of all documents in a row
NGramsAcross(ds, toks, n) ==
    get_ngrams(Flatten([i \in 1..Len(ds) |-> toks[ds[i]]]), n)

\* the n-grams the two counters are updated with: those of every document
\* that has words, in the order of doc_tokens
NGramsOfAll(ds, toks, n) ==
    Flatten([i \in 1..Len(ds) |->
               IF toks[ds[i]] = <<>> THEN <<>> ELSE get_ngrams(toks[ds[i]], n)])

\* variant of Guarded: the division without its guard
Unguarded(n, d) == Frac(n, d)

\* the ratio n / d of the report, guarded against d = 0
Guarded(n, d) == IF d # 0 THEN Frac(n, d) ELSE Zero

\* top_100_words
TopWords(words) ==
    Let(most_common(words, 100), LAMBDA top_100 :
        [i \in 1..Len(top_100) |->
           [word |-> top_100[i][1], count |-> top_100[i][2],
            frequency |-> Guarded(top_100[i][2], Len(words))]])

\* top_bigrams
TopBigrams(ds, toks) ==
    Let(most_common(NGramsOfAll(ds, toks, 2), 20), LAMBDA top :
        [i \in 1..Len(top) |-> [bigram |-> top[i][1], count |-> top[i][2]]])

\* top_trigrams
TopTrigrams(ds, toks) ==
    Let(most_common(NGramsOfAll(ds, toks, 3), 20), LAMBDA top :
        [i \in 1..Len(top) |-> [trigram |-> top[i][1], count |-> top[i][2]]])

\* the report dictionary main() builds from what it has loaded
Report(ds, toks, words, slens, wlens) ==
    LET total_words == Len(words)
        unique_words == Cardinality(Range(words))
    IN  [documents_processed |-> Len(ds),
         total_words |-> total_words,
         unique_words |-> unique_words,
         top_100_words |-> TopWords(words),
         document_similarity |-> Similarities(ds, toks),
         top_bigrams |-> TopBigrams(ds, toks),
         top_trigrams |-> TopTrigrams(ds, toks),
         readability |->
            [avg_sentence_length |-> Guarded(SumSeq(slens), Len(slens)),
             avg_word_length |-> Guarded(SumSeq(wlens), Len(wlens)),
             complexity_score |-> Guarded(unique_words, total_words)]]

(***************************************************************************)
(* Analyzer: analyze.py main()                                             *)
(***************************************************************************)
AAbort ==
    /\ afault' = apc
    /\ apc' = "aborted"

\* variant of APoll: the Analyzer waits for the marker of the fetch stage
APollFetch ==
    /\ apc = "poll"
    /\ apc' = IF fetch_complete # "absent" THEN "mkdirs" ELSE "sleep"
    /\ UNCHANGED <<fsVars, pVars, afault, atodo, docs, doc_tokens, all_words,
                   sentence_lengths, word_lengths, waited, xVars>>

\* while not os.path.exists(status_file)
APoll ==
    /\ apc = "poll"
    /\ apc' = IF Exists(process_complete) THEN "mkdirs" ELSE "sleep"
    /\ UNCHANGED <<fsVars, pVars, afault, atodo, docs, doc_tokens, all_words,
                   sentence_lengths, word_lengths, waited, xVars>>

\* time.sleep(2)
ASleep ==
    /\ apc = "sleep"
    /\ apc' = "poll"
    /\ UNCHANGED <<fsVars, pVars, afault, atodo, docs, doc_tokens, all_words,
                   sentence_lengths, word_lengths, waited, xVars>>

\* os.makedirs("/shared/analysis")
AMkdirs ==
    /\ apc = "mkdirs"
    /\ \/ apc' = "listdir" /\ afault' = afault
       \/ AAbort
    /\ UNCHANGED <<fsVars, pVars, atodo, docs, doc_tokens, all_words,
                   sentence_lengths, word_lengths, waited, xVars>>

\* the empty accumulators and sorted(os.listdir(processed_dir))
AListdir ==
    /\ apc = "listdir"
    /\ \/ /\ apc' = "load" /\ afault' = afault
          /\ atodo' = Sorted(DOMAIN processed)
       \/ AAbort /\ atodo' = atodo
    /\ UNCHANGED <<fsVars, pVars, docs, doc_tokens, all_words,
                   sentence_lengths, word_lengths, waited, xVars>>

\* [len(re.findall(r"[0-9A-Za-z]+", s)) for s in sentences]
SentenceWords(sentences0) ==
    Let(sentences0, LAMBDA sentences :
        [i \in 1..Len(sentences) |-> Len(Tokenize(sentences[i]))])

\* [len(w) for w in words]
WordLengths(words0) ==
    Let(words0, LAMBDA words : [i \in 1..Len(words) |-> WordLen(words[i])])

\* variant of ALoad: a loaded record is removed from the processed area
ALoadConsumes ==
    /\ apc = "load"
    /\ IF atodo = <<>>
       THEN /\ apc' = "report_open"
            /\ UNCHANGED <<afault, atodo, docs, doc_tokens, all_words,
                           sentence_lengths, word_lengths, processed>>
       ELSE LET fname == Head(atodo)
                data == processed[fname]
                text == data.text
                words == TokenizeLower(text)
                sentences == Sentences(text)
            IN  IF ~EndsWith(fname, ".json")
                THEN /\ atodo' = Tail(atodo)
                     /\ UNCHANGED <<apc, afault, docs, doc_tokens, all_words,
                                    sentence_lengths, word_lengths, processed>>
                ELSE IF ~data.valid
                THEN /\ AAbort
                     /\ UNCHANGED <<atodo, docs, doc_tokens, all_words,
                                    sentence_lengths, word_lengths, processed>>
                ELSE /\ atodo' = Tail(atodo)
                     /\ docs' = Append(docs, fname)
                     /\ doc_tokens' = (fname :> words) @@ doc_tokens
                     /\ all_words' = all_words \o words
                     /\ sentence_lengths' = sentence_lengths \o SentenceWords(sentences)
                     /\ word_lengths' = word_lengths \o WordLengths(words)
                     /\ processed' = [f \in DOMAIN processed \ {fname} |-> processed[f]]
                     /\ UNCHANGED <<apc, afault>>
    /\ UNCHANGED <<raw, unreadable, fetch_complete, process_complete,
                   final_report, analyzer_marker, pVars, waited, xVars>>

\* one turn of the loading loop: the extension filter, json.load() of the
\* record, which raises on a file that is not JSON, and the accumulation
ALoad ==
    /\ apc = "load"
    /\ IF atodo = <<>>
       THEN /\ apc' = "report_open"
            /\ UNCHANGED <<afault, atodo, docs, doc_tokens, all_words,
                           sentence_lengths, word_lengths>>
       ELSE LET fname == Head(atodo)
                data == processed[fname]
                text == data.text
                words == TokenizeLower(text)
                sentences == Sentences(text)
            IN  IF ~EndsWith(fname, ".json")
                THEN /\ atodo' = Tail(atodo)
                     /\ UNCHANGED <<apc, afault, docs, doc_tokens, all_words,
                                    sentence_lengths, word_lengths>>
                ELSE IF ~data.valid
                THEN /\ AAbort
                     /\ UNCHANGED <<atodo, docs, doc_tokens, all_words,
                                    sentence_lengths, word_lengths>>
                ELSE /\ atodo' = Tail(atodo)
                     /\ docs' = Append(docs, fname)
                     /\ doc_tokens' = (fname :> words) @@ doc_tokens
                     /\ all_words' = all_words \o words
                     /\ sentence_lengths' = sentence_lengths \o SentenceWords(sentences)
                     /\ word_lengths' = word_lengths \o WordLengths(words)
                     /\ UNCHANGED <<apc, afault>>
    /\ UNCHANGED <<fsVars, pVars, waited, xVars>>

\* open("/shared/analysis/final_report.json", "w")
AReportOpen ==
    /\ apc = "report_open"
    /\ \/ /\ apc' = "report_dump" /\ afault' = afault
          /\ final_report' = [state |-> "partial"]
       \/ AAbort /\ final_report' = final_report
    /\ UNCHANGED <<raw, unreadable, fetch_complete, processed, process_complete,
                   analyzer_marker, pVars, atodo, docs, doc_tokens, all_words,
                   sentence_lengths, word_lengths, waited, xVars>>

\* json.dump(report, f) and the close of the report; waited = 0
AReportDump ==
    /\ apc = "report_dump"
    /\ \/ /\ apc' = "linger" /\ afault' = afault
          /\ final_report' =
                [state |-> "written",
                 body |-> Report(docs, doc_tokens, all_words,
                                 sentence_lengths, word_lengths)]
          /\ waited' = 0
       \/ AAbort /\ UNCHANGED <<final_report, waited>>
    /\ UNCHANGED <<raw, unreadable, fetch_complete, processed, process_complete,
                   analyzer_marker, pVars, atodo, docs, doc_tokens, all_words,
                   sentence_lengths, word_lengths, xVars>>

\* variant of ALinger: the loop runs while waited <= KEEP_ALIVE_MAX_SEC
ALingerOver ==
    /\ apc = "linger"
    /\ IF waited <= KEEP_ALIVE_MAX_SEC
       THEN waited' = waited + 2 /\ apc' = apc
       ELSE waited' = waited /\ apc' = "exit"
    /\ UNCHANGED <<fsVars, pVars, afault, atodo, docs, doc_tokens, all_words,
                   sentence_lengths, word_lengths, xVars>>

\* the keep-alive loop: time.sleep(2); waited += 2, and the return of main()
ALinger ==
    /\ apc = "linger"
    /\ IF waited < KEEP_ALIVE_MAX_SEC
       THEN waited' = waited + 2 /\ apc' = apc
       ELSE waited' = waited /\ apc' = "exit"
    /\ UNCHANGED <<fsVars, pVars, afault, atodo, docs, doc_tokens, all_words,
                   sentence_lengths, word_lengths, xVars>>

Analyzer ==
    \/ APoll \/ ASleep \/ AMkdirs \/ AListdir \/ ALoad
    \/ AReportOpen \/ AReportDump \/ ALinger

(***************************************************************************)
(* The pipeline                                                            *)
(***************************************************************************)
Next == FetchCompletes \/ Processor \/ Analyzer

Spec == Init /\ [][Next]_vars

\* a running process takes its next step
FairSpec == Spec /\ WF_vars(Processor) /\ WF_vars(Analyzer)

(***************************************************************************)
(* The Analyzer on its own.  The raw area was empty, the Processor has     *)
(* written its marker and returned, and the processed area holds the       *)
(* records of earlier runs, whose texts are drawn here.                    *)
(***************************************************************************)
\* the most words of a drawn text
MaxTokens == 3

\* the words of the drawn texts
Vocabulary == {"Dogs", "dogs", "and"}

\* the lists of at most n words
WordLists(n) == UNION { [1..k -> Vocabulary] : k \in 0..n }

\* the text of the words ws, one space between two words
TextOf(ws) ==
    [i \in 1..(2 * Len(ws) - 1) |-> IF i % 2 = 1 THEN ws[(i + 1) \div 2] ELSE " "]

\* a text of more than 100 distinct words: 102 numerals, and the last two
\* of them again, so that the words seen last are the most frequent ones
LongWords == [i \in 1..102 |-> ToString(i)] \o <<"102", "101", "102">>

\* the record files whose text is drawn, and the one whose text is fixed
DrawnNames == { <<"a", ".json">>, <<"b", ".json">> }
FixedName == <<"x", ".json">>

\* the texts the record of FixedName can hold
FixedTexts == { TextOf(<<"and">>), TextOf(LongWords) }

\* the record of an earlier run in the file fname
EarlierRecord(fname, text) == ProcessedRecord(Replace(fname, ".json", ".html"), text)

AnalysisInit ==
    /\ raw = {} /\ unreadable = {}
    /\ fetch_complete = "valid"
    /\ \E S \in SUBSET DrawnNames : \E ws \in [S -> WordLists(MaxTokens)] :
       \E F \in SubsetsUpTo(FixedTexts, 1) :
          /\ TextOf(LongWords) \in F => Cardinality(S) <= 1
          /\ processed =
                [n \in S \cup { FixedName : t \in F } |->
                    IF n = FixedName
                    THEN EarlierRecord(n, CHOOSE t \in F : TRUE)
                    ELSE EarlierRecord(n, TextOf(ws[n]))]
    /\ process_complete = [state |-> "written", files_processed |-> 0]
    /\ final_report = [state |-> "absent"]
    /\ analyzer_marker = FALSE
    /\ ppc = "done" /\ pfault = "none" /\ todo = <<>> /\ cur = <<>>
    /\ processed_count = 0 /\ wrote = <<>>
    /\ apc = "poll" /\ afault = "none" /\ atodo = <<>> /\ docs = <<>>
    /\ doc_tokens = <<>> /\ all_words = <<>>
    /\ sentence_lengths = <<>> /\ word_lengths = <<>> /\ waited = 0
    /\ page = <<>> /\ extracted = NotExtracted
    /\ FetchIdle

\* main() of the Analyzer up to the written report
AnalysisNext ==
    \/ APoll \/ AMkdirs \/ AListdir \/ ALoad \/ AReportOpen \/ AReportDump

AnalysisSpec == AnalysisInit /\ [][AnalysisNext]_vars

(***************************************************************************)
(* strip_html() on its own, applied to a drawn document                    *)
(***************************************************************************)
\* the most lexemes of a drawn document
MaxPageLen == 4

\* the lexemes of the drawn documents
PageLexemes == {"<script>", "</script>", "</script >", "<style>", "</style>",
                "href='u2'", "src='i2'", "<a href='u1'>", " "}

Pages == UNION { [1..k -> PageLexemes] : k \in 0..MaxPageLen }

StripInit ==
    /\ raw = {} /\ unreadable = {}
    /\ fetch_complete = "absent"
    /\ processed = <<>>
    /\ process_complete = NoMarker
    /\ final_report = [state |-> "absent"]
    /\ analyzer_marker = FALSE
    /\ ppc = "poll" /\ pfault = "none" /\ todo = <<>> /\ cur = <<>>
    /\ processed_count = 0 /\ wrote = <<>>
    /\ apc = "poll" /\ afault = "none" /\ atodo = <<>> /\ docs = <<>>
    /\ doc_tokens = <<>> /\ all_words = <<>>
    /\ sentence_lengths = <<>> /\ word_lengths = <<>> /\ waited = 0
    /\ page \in Pages /\ extracted = NotExtracted
    /\ FetchIdle

\* text, links, images = strip_html(html)
StripHtml ==
    /\ extracted = NotExtracted
    /\ extracted' = [state |-> "done", out |-> strip_html(page)]
    /\ UNCHANGED <<fsVars, pVars, aVars, page, fVars>>

StripNext == StripHtml

StripSpec == StripInit /\ [][StripNext]_vars

(***************************************************************************)
(* problem2/arxiv_processor.py: process() and fetch_arxiv().  A run is     *)
(* process(), or a call of fetch_arxiv() with some value of retries.  An   *)
(* HTTP attempt ends with a response or with an exception; urlopen() has a *)
(* timeout.  The writes of the log succeed.                                *)
(***************************************************************************)
\* the largest value of retries of a direct call
MaxRetries == 3

\* resp.read() of an attempt that succeeds: a feed, or no byte at all
Bodies == {"<feed/>", ""}

\* how the attempt ends: the body is read, HTTPError with code 429, HTTPError
\* with another code, URLError, or any other exception
Outcomes ==
    { [kind |-> "ok", body |-> b] : b \in Bodies } \cup
    { [kind |-> k, body |-> ""] : k \in {"http429", "http500", "urlerror", "exception"} }

PipelineIdle ==
    /\ raw = {} /\ unreadable = {}
    /\ fetch_complete = "absent"
    /\ processed = <<>>
    /\ process_complete = NoMarker
    /\ final_report = [state |-> "absent"]
    /\ analyzer_marker = FALSE
    /\ ppc = "poll" /\ pfault = "none" /\ todo = <<>> /\ cur = <<>>
    /\ processed_count = 0 /\ wrote = <<>>
    /\ apc = "poll" /\ afault = "none" /\ atodo = <<>> /\ docs = <<>>
    /\ doc_tokens = <<>> /\ all_words = <<>>
    /\ sentence_lengths = <<>> /\ word_lengths = <<>> /\ waited = 0
    /\ page = <<>> /\ extracted = NotExtracted

FetchInit ==
    /\ PipelineIdle
    /\ \/ caller = "process" /\ fpc = "process" /\ retries = RetriesDefault
       \/ caller = "direct" /\ fpc = "fetch" /\ retries \in (-1)..MaxRetries
    /\ attempt = 0 /\ responses = <<>>
    /\ xml_bytes = "unset" /\ outputs = {} /\ exit_code = "none"

\* process() up to its call of fetch_arxiv(query, max_results, logger)
ProcessStart ==
    /\ fpc = "process"
    /\ fpc' = "fetch"
    /\ retries' = RetriesDefault
    /\ UNCHANGED <<fsVars, pVars, aVars, page, extracted,
                   caller, attempt, responses, xml_bytes, outputs, exit_code>>

\* fetch_arxiv() up to its loop: attempt = 0
FetchStart ==
    /\ fpc = "fetch"
    /\ fpc' = "loop"
    /\ attempt' = 0
    /\ UNCHANGED <<fsVars, pVars, aVars, page, extracted,
                   caller, retries, responses, xml_bytes, outputs, exit_code>>

\* where fetch_arxiv() returns to
Returned == IF caller = "process" THEN "check" ELSE "done"

\* while attempt <= retries: attempt += 1; after the loop, return b''
FetchLoop ==
    /\ fpc = "loop"
    /\ IF attempt <= retries
       THEN attempt' = attempt + 1 /\ fpc' = "request" /\ xml_bytes' = xml_bytes
       ELSE attempt' = attempt /\ fpc' = Returned /\ xml_bytes' = ""
    /\ UNCHANGED <<fsVars, pVars, aVars, page, extracted,
                   caller, retries, responses, outputs, exit_code>>

\* variant of FetchAttempt: every HTTP error is retried while attempts remain
FetchAttemptAnyHttp ==
    /\ fpc = "request"
    /\ \E o \in Outcomes :
          /\ responses' = Append(responses, o)
          /\ CASE o.kind = "ok" ->
                    xml_bytes' = o.body /\ fpc' = Returned
               [] o.kind \in {"http429", "http500", "urlerror"} ->
                    IF attempt <= retries
                    THEN xml_bytes' = xml_bytes /\ fpc' = "backoff"
                    ELSE xml_bytes' = "" /\ fpc' = Returned
               [] OTHER ->
                    xml_bytes' = "" /\ fpc' = Returned
    /\ UNCHANGED <<fsVars, pVars, aVars, page, extracted,
                   caller, retries, attempt, outputs, exit_code>>

\* one HTTP attempt: urlopen() and resp.read(), and the handler of the
\* exception; a break leaves the loop for return b''
FetchAttempt ==
    /\ fpc = "request"
    /\ \E o \in Outcomes :
          /\ responses' = Append(responses, o)
          /\ CASE o.kind = "ok" ->
                    xml_bytes' = o.body /\ fpc' = Returned
               [] o.kind \in {"http429", "urlerror"} ->
                    IF attempt <= retries
                    THEN xml_bytes' = xml_bytes /\ fpc' = "backoff"
                    ELSE xml_bytes' = "" /\ fpc' = Returned
               [] OTHER ->
                    xml_bytes' = "" /\ fpc' = Returned
    /\ UNCHANGED <<fsVars, pVars, aVars, page, extracted,
                   caller, retries, attempt, outputs, exit_code>>

\* time.sleep(backoff_sec); continue
FetchBackoff ==
    /\ fpc = "backoff"
    /\ fpc' = "loop"
    /\ UNCHANGED <<fsVars, pVars, aVars, page, extracted,
                   caller, retries, attempt, responses, xml_bytes, outputs, exit_code>>

\* if not xml_bytes: return 1; else the entries are parsed and the papers
\* are built
ProcessCheck ==
    /\ fpc = "check"
    /\ IF xml_bytes = ""
       THEN fpc' = "done" /\ exit_code' = 1
       ELSE fpc' = "write_papers" /\ exit_code' = exit_code
    /\ UNCHANGED <<fsVars, pVars, aVars, page, extracted,
                   caller, retries, attempt, responses, xml_bytes, outputs>>

\* write_json(papers.json)
ProcessWritePapers ==
    /\ fpc = "write_papers"
    /\ fpc' = "write_corpus"
    /\ outputs' = outputs \cup {"papers.json"}
    /\ UNCHANGED <<fsVars, pVars, aVars, page, extracted,
                   caller, retries, attempt, responses, xml_bytes, exit_code>>

\* write_json(corpus_analysis.json); return 0
ProcessWriteCorpus ==
    /\ fpc = "write_corpus"
    /\ fpc' = "done"
    /\ outputs' = outputs \cup {"corpus_analysis.json"}
    /\ exit_code' = 0
    /\ UNCHANGED <<fsVars, pVars, aVars, page, extracted,
                   caller, retries, attempt, responses, xml_bytes>>

FetchNext ==
    \/ ProcessStart \/ FetchStart \/ FetchLoop \/ FetchAttempt \/ FetchBackoff
    \/ ProcessCheck \/ ProcessWritePapers \/ ProcessWriteCorpus

FetchSpec == FetchInit /\ [][FetchNext]_vars

\* a running call takes its next step
FetchFairSpec == FetchSpec /\ WF_vars(FetchNext)

(***************************************************************************)
(* Properties                                                              *)
(***************************************************************************)
IsHtml(f) == EndsWith(f, ".html")
IsJson(f) == EndsWith(f, ".json")
\* the raw documents the Processor can read
Readable == { f \in raw : IsHtml(f) /\ f \notin unreadable }
\* the Processor will write no further record
BatchOver == ppc \in {"marker_dump", "done", "aborted"} /\ todo = <<>> /\ cur = <<>>
AWaiting == apc \in {"poll", "sleep"}

\* C1: whenever process_complete.json exists, the loop over the raw documents
\* is over and every record the Processor has counted is a completely written
\* file of the processed area; the count in the marker is that number of
\* records.
MarkerAfterRecords ==
    Exists(process_complete) =>
        /\ BatchOver
        /\ \A f \in Readable : f \in Range(wrote)
        /\ processed_count = Len(wrote)
        /\ \A i \in 1..Len(wrote) :
              /\ OutPath(wrote[i]) \in DOMAIN processed
              /\ processed[OutPath(wrote[i])].valid
        /\ process_complete.state = "written" =>
              process_complete.files_processed = Len(wrote)

MarkerAfterRecordsWitness ==
    /\ process_complete.state = "written"
    /\ Len(wrote) = 2

\* C2: while process_complete.json is absent the Analyzer is in its wait loop,
\* has listed and loaded nothing and has written no report; whenever the
\* Analyzer is past its wait loop the Processor has finished its last record.
AnalyzerGated ==
    /\ ~Exists(process_complete) =>
          /\ AWaiting
          /\ atodo = <<>> /\ docs = <<>>
          /\ ~Exists(final_report)
    /\ ~AWaiting =>
          /\ BatchOver
          /\ ppc = "aborted" => pfault = "marker_dump"

AnalyzerGatedWitness ==
    /\ apc = "load" /\ docs # <<>> /\ atodo # <<>>
    /\ wrote # <<>>
    /\ ppc = "marker_dump"

\* C3: a Processor that a structural fault ended before the end of its batch
\* has written no completion marker, and the Analyzer is then in its wait loop
\* and has written no report.
NoMarkerAfterAbort ==
    (ppc = "aborted" /\ pfault \in {"mkdirs", "listdir", "rec_open", "rec_dump"}) =>
        /\ ~Exists(process_complete)
        /\ AWaiting
        /\ ~Exists(final_report)

NoMarkerAfterAbortWitness ==
    /\ ppc = "aborted" /\ pfault = "rec_dump"
    /\ wrote # <<>>
    /\ apc = "sleep"

\* the records of the processed area json.load() cannot decode, and the others
CorruptRecords == { f \in DOMAIN processed : IsJson(f) /\ ~processed[f].valid }
GoodRecords    == { f \in DOMAIN processed : IsJson(f) /\ processed[f].valid }
AReported == apc \in {"linger", "exit"}

\* C4: with the completion marker present and a corrupt record in the
\* processed area, the Analyzer does not stop in its loading loop: it skips the
\* corrupt record, loads every other record and writes the report.
CorruptRecordSkipped ==
    (Exists(process_complete) /\ CorruptRecords # {}) =>
        /\ ~(apc = "aborted" /\ afault = "load")
        /\ apc \in {"report_open", "report_dump", "linger", "exit"} =>
              Range(docs) = GoodRecords
        /\ AReported => final_report.state = "written"

\* C5: the Analyzer's completion marker is never written before the report,
\* and an Analyzer that has written the report and left main() has written it.
AnalyzerMarkerFollowsReport ==
    /\ analyzer_marker => final_report.state = "written"
    /\ apc = "exit" => analyzer_marker

\* C6: when the Processor is done, every raw .html document that could be read
\* has had its record written to its record file, whatever documents could not
\* be read; the marker is written and counts the readable documents only.
BadDocumentSkipped ==
    ppc = "done" =>
        /\ \A f \in Readable :
              /\ f \in Range(wrote)
              /\ OutPath(f) \in DOMAIN processed
              /\ processed[OutPath(f)].valid
        /\ \A f \in unreadable : f \notin Range(wrote)
        /\ process_complete.state = "written"
        /\ process_complete.files_processed = Cardinality(Readable)

BadDocumentSkippedWitness ==
    /\ ppc = "done"
    /\ \E f \in unreadable : IsHtml(f) /\ \E i \in 1..Len(wrote) : NameLess(f, wrote[i])

\* C7: when the Processor is done, the record files it wrote are named by
\* replacing the extension of their input with .json, two different inputs
\* have different record files, files_processed is the number of distinct
\* record files written, and no input without the .html extension has a record.
OneRecordPerInput ==
    ppc = "done" =>
        /\ \A i \in 1..Len(wrote) :
              /\ IsHtml(wrote[i])
              /\ OutPath(wrote[i]) = ReplaceExt(wrote[i], ".json")
        /\ \A i, j \in 1..Len(wrote) :
              wrote[i] # wrote[j] => OutPath(wrote[i]) # OutPath(wrote[j])
        /\ Range(wrote) = Readable
        /\ process_complete.files_processed =
              Cardinality({ OutPath(wrote[i]) : i \in 1..Len(wrote) })

\* the report of an empty corpus
IsZeroReport(r) ==
    /\ r.documents_processed = 0
    /\ r.total_words = 0
    /\ r.unique_words = 0
    /\ r.top_100_words = <<>>
    /\ r.document_similarity = <<>>
    /\ r.top_bigrams = <<>>
    /\ r.top_trigrams = <<>>
    /\ IsZero(r.readability.avg_sentence_length)
    /\ IsZero(r.readability.avg_word_length)
    /\ IsZero(r.readability.complexity_score)

\* what C8 promises of a run
EmptyBatchOutcome ==
    /\ ppc = "done" =>
          /\ process_complete.state = "written"
          /\ process_complete.files_processed = 0
          /\ wrote = <<>>
    /\ AReported =>
          /\ final_report.state = "written"
          /\ IsZeroReport(final_report.body)

\* C8 as stated: with an empty raw area the Processor writes a marker with
\* files_processed = 0 and no record, and the report the Analyzer then writes
\* is the all-zero report, every ratio of it 0.0.
EmptyBatchZeroReport == raw = {} => EmptyBatchOutcome

\* C8, amended: the same, for a processed area that holds no .json file when
\* the run starts (the Processor writes none when the raw area is empty).
EmptyBatchZeroReportFresh ==
    (raw = {} /\ \A f \in DOMAIN processed : ~IsJson(f)) => EmptyBatchOutcome

EmptyBatchZeroReportWitness ==
    /\ raw = {} /\ \A f \in DOMAIN processed : ~IsJson(f)
    /\ ppc = "done" /\ process_complete.files_processed = 0
    /\ apc = "exit" /\ IsZeroReport(final_report.body)

\* C9: while fetch_complete.json is absent the Processor is in its wait loop
\* and has written no record and no marker; a poll that finds the file leaves
\* the wait loop whatever the file holds, and a poll that does not goes on
\* waiting.
WaitsForSource ==
    /\ [](fetch_complete = "absent" =>
            /\ ppc \in {"poll", "sleep"}
            /\ wrote = <<>> /\ cur = <<>>
            /\ ~Exists(process_complete))
    /\ [][ppc = "poll" /\ ppc' # "poll" =>
            ppc' = IF fetch_complete # "absent" THEN "mkdirs" ELSE "sleep"]_vars

WaitsForSourceWitness ==
    /\ ppc = "mkdirs"
    /\ fetch_complete \in {"empty", "invalid"}

\* C10: once fetch_complete.json exists the Processor comes to write its
\* completion marker unless a structural fault ends it; the marker goes from
\* absent to written once and is never changed again, and after the marker
\* write the Processor takes no further step.
ProcessorCompletes ==
    /\ (fetch_complete # "absent") ~>
          (process_complete.state = "written" \/ ppc = "aborted")
    /\ [](process_complete.state = "written" => ppc = "done" /\ pfault = "none")
    /\ [][process_complete' # process_complete =>
            \/ process_complete.state = "absent" /\ process_complete'.state = "partial"
            \/ process_complete.state = "partial" /\ process_complete'.state = "written"]_vars
    /\ [][process_complete.state = "written" =>
            UNCHANGED <<pVars, processed, process_complete>>]_vars

ProcessorCompletesWitness ==
    /\ ppc = "done" /\ process_complete.state = "written"
    /\ process_complete.files_processed = 2

\* the token list the Analyzer derives from the record file f
TokensOf(f) == TokenizeLower(processed[f].text)
\* the report is written
Reported == final_report.state = "written"

\* C11: the similarity of two token lists does not depend on their order, and
\* the written report holds exactly one similarity entry for each unordered
\* pair of distinct loaded documents, n(n-1)/2 for n documents, with doc1
\* before doc2 in the order of the file names and never doc1 = doc2.
SimilaritySymmetricOncePerPair ==
    Reported =>
        LET sims == final_report.body.document_similarity
            n == Cardinality(GoodRecords)
        IN  /\ 2 * Len(sims) = n * (n - 1)
            /\ \A k \in 1..Len(sims) :
                  /\ {sims[k].doc1, sims[k].doc2} \subseteq GoodRecords
                  /\ sims[k].doc1 # sims[k].doc2
                  /\ NameLess(sims[k].doc1, sims[k].doc2)
                  /\ sims[k].similarity =
                        jaccard_similarity(TokensOf(sims[k].doc2), TokensOf(sims[k].doc1))
            /\ \A f, g \in GoodRecords :
                  /\ f # g => Cardinality({ k \in 1..Len(sims) :
                                  {sims[k].doc1, sims[k].doc2} = {f, g} }) = 1
                  /\ jaccard_similarity(TokensOf(f), TokensOf(g)) =
                        jaccard_similarity(TokensOf(g), TokensOf(f))

SimilaritySymmetricOncePerPairWitness ==
    /\ Reported
    /\ Len(final_report.body.document_similarity) = 3
    /\ \E k \in 1..3 :
          LET e == final_report.body.document_similarity[k]
          IN  /\ Cardinality(Range(TokensOf(e.doc1))) # Cardinality(Range(TokensOf(e.doc2)))
              /\ e.similarity[1] # 0

\* the token set of the record file f
TokenSet(f) == Range(TokensOf(f))
\* the float q is exactly 1.0
IsOne(q) == q[1] = q[2] /\ q[2] # 0

\* C12 as stated: in the written report the similarity of two documents is
\* exactly 0.0 when their token sets are disjoint and non-empty, and exactly
\* 1.0 when their token sets are identical.
DisjointZeroIdenticalOne ==
    Reported =>
        \A k \in 1..Len(final_report.body.document_similarity) :
            LET e == final_report.body.document_similarity[k]
                set1 == TokenSet(e.doc1)
                set2 == TokenSet(e.doc2)
            IN  /\ (set1 # {} /\ set2 # {} /\ set1 \cap set2 = {}) => IsZero(e.similarity)
                /\ set1 = set2 => IsOne(e.similarity)

\* C12, amended: in the written report the similarity of two documents is
\* exactly 0.0 when their token sets are disjoint and non-empty, and exactly
\* 1.0 when their token sets are identical and non-empty.
DisjointZeroIdenticalNonEmptyOne ==
    Reported =>
        \A k \in 1..Len(final_report.body.document_similarity) :
            LET e == final_report.body.document_similarity[k]
                set1 == TokenSet(e.doc1)
                set2 == TokenSet(e.doc2)
            IN  /\ (set1 # {} /\ set2 # {} /\ set1 \cap set2 = {}) => IsZero(e.similarity)
                /\ (set1 = set2 /\ set1 # {}) => IsOne(e.similarity)

DisjointZeroIdenticalNonEmptyOneWitness ==
    /\ Reported
    /\ \E k \in 1..Len(final_report.body.document_similarity) :
          LET e == final_report.body.document_similarity[k]
          IN  /\ TokenSet(e.doc1) = TokenSet(e.doc2) /\ TokenSet(e.doc1) # {}
              /\ TokensOf(e.doc1) # TokensOf(e.doc2)
    /\ \E k \in 1..Len(final_report.body.document_similarity) :
          LET e == final_report.body.document_similarity[k]
          IN  /\ TokenSet(e.doc1) # {} /\ TokenSet(e.doc2) # {}
              /\ TokenSet(e.doc1) \cap TokenSet(e.doc2) = {}

\* C13: every similarity of the written report is the size of the
\* intersection of the two token sets over the size of their union, is 0.0
\* when the union is empty, and lies in [0, 1].
SimilarityIsJaccardRatio ==
    Reported =>
        \A k \in 1..Len(final_report.body.document_similarity) :
            LET e == final_report.body.document_similarity[k]
                inter == TokenSet(e.doc1) \cap TokenSet(e.doc2)
                union == TokenSet(e.doc1) \cup TokenSet(e.doc2)
                q == e.similarity
            IN  /\ q[2] > 0 /\ 0 <= q[1] /\ q[1] <= q[2]
                /\ IF union = {} THEN IsZero(q)
                   ELSE q[1] * Cardinality(union) = Cardinality(inter) * q[2]

SimilarityIsJaccardRatioWitness ==
    /\ Reported
    /\ \E k \in 1..Len(final_report.body.document_similarity) :
          LET e == final_report.body.document_similarity[k]
          IN  /\ 0 < e.similarity[1] /\ e.similarity[1] < e.similarity[2]
              /\ Len(TokensOf(e.doc1)) > Cardinality(TokenSet(e.doc1))
    /\ \E k \in 1..Len(final_report.body.document_similarity) :
          TokensOf(final_report.body.document_similarity[k].doc1) = <<>>

\* the raw area holds the two documents "Cats and dogs. Dogs run fast!" and
\* "Dogs and birds fly.", both readable, and the processed area was empty
\* before the run
TwoDocumentScenario ==
    /\ raw = { <<"a", ".html">>, <<"b", ".html">> }
    /\ unreadable = {}
    /\ DOMAIN processed \subseteq { <<"a", ".json">>, <<"b", ".json">> }
    /\ Len(wrote) = Cardinality(DOMAIN processed)

\* C14: the report of a full run over the two documents "Cats and dogs. Dogs
\* run fast!" and "Dogs and birds fly." lists the word "dogs" with count 3 in
\* top_100_words, and holds a single similarity entry, of value 2/7.
TwoDocumentReport ==
    (TwoDocumentScenario /\ Reported) =>
        LET r == final_report.body
        IN  /\ \E i \in 1..Len(r.top_100_words) :
                  r.top_100_words[i].word = "dogs" /\ r.top_100_words[i].count = 3
            /\ \A i \in 1..Len(r.top_100_words) : r.top_100_words[i].word # "Dogs"
            /\ Len(r.document_similarity) = 1
            /\ r.document_similarity[1].similarity[1] * 7 =
                  2 * r.document_similarity[1].similarity[2]
            /\ r.document_similarity[1].similarity[2] # 0
            /\ TokenSet(<<"a", ".json">>) \cap TokenSet(<<"b", ".json">>) = {"dogs", "and"}
            /\ Cardinality(TokenSet(<<"a", ".json">>) \cup TokenSet(<<"b", ".json">>)) = 7

TwoDocumentReportWitness ==
    /\ TwoDocumentScenario /\ Reported
    /\ wrote = << <<"a", ".html">>, <<"b", ".html">> >>
    /\ processed[<<"a", ".json">>].text =
          <<"Cats", " ", "and", " ", "dogs", ".", " ", "Dogs", " ", "run", " ", "fast", "!">>
    /\ processed[<<"b", ".json">>].text =
          <<"Dogs", " ", "and", " ", "birds", " ", "fly", ".">>
    /\ apc = "exit"

\* the start and end tags of the script and style elements of HTML; an end
\* tag may hold white space before its ">"
ScriptStartTags == {"<script>"}
ScriptEndTags   == {"</script>", "</script >"}
StyleStartTags  == {"<style>"}
StyleEndTags    == {"</style>"}

\* the element whose content the lexeme after position p of the document h
\* belongs to: a script or style element runs from its start tag to its first
\* end tag, and the tags inside it are text
ElementAt(h) ==
    LET mode[p \in 0..Len(h)] ==
          IF p = 0 THEN "none"
          ELSE CASE mode[p - 1] = "none" ->
                      IF h[p] \in ScriptStartTags THEN "script"
                      ELSE IF h[p] \in StyleStartTags THEN "style" ELSE "none"
                 [] mode[p - 1] = "script" ->
                      IF h[p] \in ScriptEndTags THEN "none" ELSE "script"
                 [] mode[p - 1] = "style" ->
                      IF h[p] \in StyleEndTags THEN "none" ELSE "style"
    IN  mode

\* the positions of h that are the content of a script or style block that
\* has its end tag
BlockContent(h) ==
    LET mode == ElementAt(h)
    IN  { p \in 1..Len(h) :
            /\ mode[p - 1] # "none" /\ mode[p] = mode[p - 1]
            /\ \E e \in (p + 1)..Len(h) : mode[e] = "none" }

\* the lexeme lex occurs in h, and only inside script or style blocks
OnlyInBlocks(h, lex) ==
    /\ \E p \in 1..Len(h) : h[p] = lex
    /\ \A p \in 1..Len(h) : h[p] = lex => p \in BlockContent(h)

\* C15: when an href-looking or src-looking string occurs in a document only
\* inside script or style blocks, the links and images strip_html returns do
\* not hold it, and no word of it is a token of the returned text.
BlockContentDropped ==
    extracted.state = "done" =>
        /\ OnlyInBlocks(page, "href='u2'") =>
              /\ "u2" \notin Range(extracted.out.links)
              /\ Range(Tokenize(extracted.out.text)) \cap {"href", "u2"} = {}
        /\ OnlyInBlocks(page, "src='i2'") =>
              /\ "i2" \notin Range(extracted.out.images)
              /\ Range(Tokenize(extracted.out.text)) \cap {"src", "i2"} = {}

\* the float q is a number, and is 0.0 when the count it is divided by is 0
GuardedRatio(q, d) == q[2] # 0 /\ (d = 0 => IsZero(q))

\* C16: every ratio the two stages emit is a number, and is 0.0 when its
\* denominator is zero: avg_word_length of every record, and the frequencies,
\* the similarities, avg_sentence_length, avg_word_length and complexity_score
\* of the report; complexity_score is unique_words / total_words, and
\* unique_words is at most total_words.
RatiosGuarded ==
    /\ \A f \in GoodRecords :
          GuardedRatio(processed[f].statistics.avg_word_length,
                       processed[f].statistics.word_count)
    /\ Reported =>
          LET r == final_report.body
          IN  /\ \A i \in 1..Len(r.top_100_words) :
                    /\ GuardedRatio(r.top_100_words[i].frequency, r.total_words)
                    /\ r.top_100_words[i].frequency[1] = r.top_100_words[i].count
                    /\ r.top_100_words[i].frequency[2] = r.total_words
              /\ \A k \in 1..Len(r.document_similarity) :
                    GuardedRatio(r.document_similarity[k].similarity,
                                 Cardinality(Range(doc_tokens[r.document_similarity[k].doc1])
                                        \cup Range(doc_tokens[r.document_similarity[k].doc2])))
              /\ GuardedRatio(r.readability.avg_sentence_length, Len(sentence_lengths))
              /\ GuardedRatio(r.readability.avg_word_length, r.total_words)
              /\ GuardedRatio(r.readability.complexity_score, r.total_words)
              /\ r.unique_words <= r.total_words
              /\ r.total_words # 0 =>
                    r.readability.complexity_score = Frac(r.unique_words, r.total_words)
              /\ r.total_words = Len(all_words)
              /\ r.unique_words = Cardinality(Range(all_words))

RatiosGuardedWitness ==
    /\ Reported
    /\ wrote # <<>>
    /\ final_report.body.total_words = 0
    /\ sentence_lengths # <<>>
    /\ \E f \in GoodRecords :
          /\ processed[f].statistics.word_count = 0
          /\ processed[f].statistics.sentence_count > 0

\* C17: a step of the Processor leaves the raw area, the upstream marker and
\* the files of the Analyzer as they are, and changes the processed area only
\* by creating or rewriting a record file; a step of the Analyzer leaves the
\* raw area, the upstream marker, the processed records and the marker of the
\* Processor as they are.
StagesKeepToTheirAreas ==
    [][ /\ Processor =>
             /\ UNCHANGED <<raw, unreadable, fetch_complete, final_report,
                            analyzer_marker>>
             /\ DOMAIN processed \subseteq DOMAIN processed'
             /\ \A f \in DOMAIN processed :
                   processed'[f] # processed[f] => f = OutPath(cur)
        /\ Analyzer =>
             UNCHANGED <<raw, unreadable, fetch_complete, processed,
                         process_complete>> ]_vars

StagesKeepToTheirAreasWitness ==
    /\ wrote # <<>>
    /\ process_complete.state = "written"
    /\ final_report.state = "written"
    /\ apc = "exit"

\* C18: once the report is written the Analyzer only sleeps: each turn of the
\* keep-alive loop adds 2 to waited, waited never exceeds KEEP_ALIVE_MAX_SEC,
\* no file of the Analyzer, no record and no raw document changes while it
\* lingers, and a lingering Analyzer always reaches the end of main().
LingersThenExits ==
    /\ [](apc \in {"linger", "exit"} =>
             /\ final_report.state = "written"
             /\ waited <= KEEP_ALIVE_MAX_SEC /\ waited % 2 = 0
             /\ apc = "exit" => waited = KEEP_ALIVE_MAX_SEC)
    /\ [][apc = "linger" =>
             /\ UNCHANGED <<final_report, analyzer_marker, processed, raw,
                            fetch_complete>>
             /\ Analyzer =>
                  /\ process_complete' = process_complete
                  /\ \/ waited' = waited + 2 /\ apc' = "linger"
                     \/ waited' = waited /\ apc' = "exit"]_vars
    /\ (apc = "linger") ~> (apc = "exit")

LingersThenExitsWitness ==
    /\ apc = "exit"
    /\ waited = KEEP_ALIVE_MAX_SEC
    /\ final_report.state = "written"
    /\ final_report.body.documents_processed > 0

\* the token lists of the loaded documents, in the order they were loaded
LoadedTokens == [i \in 1..Len(docs) |-> TokensOf(docs[i])]

\* the number of occurrences of x in the lists of toks
Occurrences(toks, x) == SumSeq([i \in 1..Len(toks) |-> Count(toks[i], x)])

\* C19: top_100_words of the written report has at most 100 entries, of
\* distinct lower-cased words, in non-increasing order of count; the count of
\* an entry is the number of occurrences of its word in the tokens of all
\* loaded documents, no word outside the list occurs more often than a word
\* of the list, and the frequency is the count over total_words.
TopWordsByCount ==
    Reported =>
        Let(LoadedTokens, LAMBDA toks :
            LET top == final_report.body.top_100_words
                total == SumSeq([i \in 1..Len(toks) |-> Len(toks[i])])
            IN  /\ Len(top) <= 100
                /\ final_report.body.total_words = total
                /\ \A i \in 1..Len(top) :
                      /\ Lower(top[i].word) = top[i].word
                      /\ top[i].count = Occurrences(toks, top[i].word)
                      /\ top[i].count > 0
                      /\ top[i].frequency[2] # 0
                      /\ top[i].frequency[1] * total = top[i].count * top[i].frequency[2]
                      /\ \A j \in (i + 1)..Len(top) :
                            /\ top[i].count >= top[j].count
                            /\ top[i].word # top[j].word
                /\ \A w \in UNION { Range(toks[i]) : i \in 1..Len(toks) } :
                      (\A i \in 1..Len(top) : top[i].word # w) =>
                          /\ Len(top) = 100
                          /\ \A i \in 1..Len(top) : Occurrences(toks, w) <= top[i].count)

TopWordsByCountWitness ==
    /\ Reported
    /\ Len(final_report.body.top_100_words) = 100
    /\ final_report.body.unique_words > 100
    /\ final_report.body.top_100_words[1].count > final_report.body.top_100_words[100].count
    /\ \E f \in GoodRecords : "Dogs" \in Range(Tokenize(processed[f].text))

\* the number of places of the token list t where the n-gram g stands
Places(t, g) ==
    Cardinality({ i \in 1..(Len(t) - Len(g) + 1) : SubSeq(t, i, i + Len(g) - 1) = g })

\* the n-grams that stand inside one of the lists of toks
GramsInside(toks, n) ==
    UNION { { SubSeq(toks[d], i, i + n - 1) : i \in 1..(Len(toks[d]) - n + 1) } :
            d \in 1..Len(toks) }

\* top is a list of at most 20 distinct n-grams in non-increasing order of
\* count; the count of an n-gram is the number of places inside single
\* documents where it stands; no n-gram outside the list has more places,
\* and a list that is not full holds one n-gram for each of the k - n + 1
\* places of every document of k >= n tokens
TopGramsByCount(top, toks, n) ==
    /\ Len(top) <= 20
    /\ \A i \in 1..Len(top) :
          /\ Len(top[i].gram) = n
          /\ top[i].count > 0
          /\ top[i].count = SumSeq([d \in 1..Len(toks) |-> Places(toks[d], top[i].gram)])
          /\ \A j \in (i + 1)..Len(top) :
                /\ top[i].count >= top[j].count
                /\ top[i].gram # top[j].gram
    /\ \A g \in GramsInside(toks, n) :
          (\A i \in 1..Len(top) : top[i].gram # g) =>
              /\ Len(top) = 20
              /\ \A i \in 1..Len(top) :
                    SumSeq([d \in 1..Len(toks) |-> Places(toks[d], g)]) <= top[i].count
    /\ Len(top) < 20 =>
          SumSeq([i \in 1..Len(top) |-> top[i].count]) =
             SumSeq([d \in 1..Len(toks) |->
                        IF Len(toks[d]) >= n THEN Len(toks[d]) - n + 1 ELSE 0])

\* C20: the bigrams and trigrams of the written report are runs of 2 and 3
\* tokens inside one document, never across two; a document of k tokens
\* yields max(k - n + 1, 0) n-grams; the counts are summed over all loaded
\* documents; top_bigrams and top_trigrams hold at most 20 entries each, in
\* non-increasing order of count.
NGramsInsideDocuments ==
    Reported =>
        Let(LoadedTokens, LAMBDA toks :
            /\ TopGramsByCount([i \in 1..Len(final_report.body.top_bigrams) |->
                                  [gram |-> final_report.body.top_bigrams[i].bigram,
                                   count |-> final_report.body.top_bigrams[i].count]],
                               toks, 2)
            /\ TopGramsByCount([i \in 1..Len(final_report.body.top_trigrams) |->
                                  [gram |-> final_report.body.top_trigrams[i].trigram,
                                   count |-> final_report.body.top_trigrams[i].count]],
                               toks, 3)
            /\ \A d \in 1..Len(toks) : \A n \in {2, 3} :
                  Len(get_ngrams(toks[d], n)) =
                     IF Len(toks[d]) >= n THEN Len(toks[d]) - n + 1 ELSE 0)

NGramsInsideDocumentsWitness ==
    /\ Reported
    /\ Len(docs) = 2
    /\ Len(final_report.body.top_bigrams) = 20
    /\ Len(final_report.body.top_trigrams) = 20
    /\ final_report.body.top_bigrams[1].count > final_report.body.top_bigrams[20].count
    /\ \E f \in GoodRecords : Len(TokensOf(f)) = 2

\* no fault has occurred, and every file of the processed area is a record
\* the Processor has written in this run, as in a run that starts from an
\* empty processed area
FaultFreeFreshRun ==
    /\ pfault = "none" /\ afault = "none"
    /\ unreadable = {}
    /\ DOMAIN processed = { OutPath(wrote[i]) : i \in 1..Len(wrote) }

\* C21: in a run without faults that starts from an empty processed area,
\* documents_processed of the written report equals files_processed of the
\* Processor's marker, and the documents the Analyzer has loaded are the
\* records the Processor has counted.
ReportCountsMarkerCount ==
    (FaultFreeFreshRun /\ Reported /\ process_complete.state = "written") =>
        /\ final_report.body.documents_processed = process_complete.files_processed
        /\ Len(docs) = Len(wrote)
        /\ Range(docs) = { OutPath(wrote[i]) : i \in 1..Len(wrote) }

\* fetch_arxiv() has returned
FetchReturned == fpc \in {"check", "write_papers", "write_corpus", "done"}
\* the outcomes after which fetch_arxiv() goes on to another attempt
Retryable == {"http429", "urlerror"}

\* C22: fetch_arxiv() makes at most retries + 1 HTTP attempts; an attempt is
\* followed by another one only when it ended with HTTP 429 or a URL error
\* and attempts remained, and is then always followed by one; the call
\* returns the body of the attempt that succeeded, and empty bytes when the
\* last attempt failed; process() then returns 1 and has written neither
\* papers.json nor corpus_analysis.json; every call returns.
FetchRetriesBounded ==
    /\ [](/\ Len(responses) <= (IF retries >= 0 THEN retries + 1 ELSE 0)
          /\ caller = "process" => Len(responses) <= 4
          /\ \A i \in 1..(Len(responses) - 1) :
                responses[i].kind \in Retryable /\ i <= retries
          /\ (fpc \in {"loop", "backoff"} /\ responses # <<>>) =>
                responses[Len(responses)].kind \in Retryable
          /\ FetchReturned =>
                IF responses # <<>> /\ responses[Len(responses)].kind = "ok"
                THEN xml_bytes = responses[Len(responses)].body
                ELSE /\ xml_bytes = ""
                     /\ (responses # <<>> /\ responses[Len(responses)].kind \in Retryable)
                           => Len(responses) = retries + 1
          /\ (caller = "process" /\ fpc = "done" /\ xml_bytes = "") =>
                exit_code = 1 /\ outputs = {}
          /\ (fpc \in {"write_papers", "write_corpus"} \/ outputs # {}) =>
                xml_bytes \notin {"", "unset"})
    /\ (fpc \in {"process", "fetch"}) ~> (fpc = "done")

FetchRetriesBoundedWitness ==
    /\ caller = "process" /\ fpc = "done"
    /\ Len(responses) = 4
    /\ responses[1].kind = "http429" /\ responses[2].kind = "urlerror"
    /\ responses[4].kind = "http429"
    /\ xml_bytes = "" /\ exit_code = 1 /\ outputs = {}

====
